---------------------------- MODULE Spec2Model ----------------------------
(***************************************************************************)
(* PIC12F675 + HC4040 frequency meter (src/main.c).                        *)
(*                                                                         *)
(* The model has three threads of control, as the firmware has:            *)
(*   - the foreground: main() -> mcu_init() -> freq_init() -> ei() -> the   *)
(*     while(1) loop, one action per C statement (position: pc);           *)
(*   - the interrupt handler isr(), one action per C statement             *)
(*     (position: ipc), entered by the hardware when T0IF, T0IE and GIE    *)
(*     are all set, never preempted, always preempting the foreground;     *)
(*   - the environment: the prescaled timer tick, pulses on Fin, and the   *)
(*     level of the range-select button.                                   *)
(*                                                                         *)
(* The three user macros F_CLK, F_MSB, PS_TMR and the optional BTN_PORT    *)
(* are build-time inputs; they are drawn in Init and never change.         *)
(*                                                                         *)
(* Registers and latches whose power-on value the firmware does not set    *)
(* hold Unknown until their first write.                                   *)
(*                                                                         *)
(* Timing abstraction: one Tick is one increment of TMR0 (one prescaled    *)
(* timer tick).  A write to TMR0 clears the prescaler, and the handler is  *)
(* a few tens of instruction cycles long, so with the prescalers used in   *)
(* RunConfigs (>= 64 instruction cycles per tick) no tick falls between    *)
(* the overflow and the end of the handler; ticks that would fall between  *)
(* the overflow and the reload are overwritten by the reload anyway.       *)
(***************************************************************************)
EXTENDS Integers, Sequences, FiniteSets, TLC

\* ------------------------------------------------------------------ bounds
\* The external counter is modelled up to this count (Fin pulses beyond it
\* are not taken).
MaxCount == 1

\* ------------------------------------------------------- program constants
\* bit numbers of the pin masks (1<<n)
CNTR_CLK == 0
CNTR_MR == 1
LED_PIN == 2
BTN_PIN == 3

Unknown == 0 - 1

OutPins == {CNTR_CLK, CNTR_MR, LED_PIN}
AllPins == {CNTR_CLK, CNTR_MR, LED_PIN, BTN_PIN}

\* ---------------------------------------------------------- configurations
Config(clk, msb, ps, btn) == [F_CLK |-> clk, F_MSB |-> msb, PS_TMR |-> ps, BTN_PORT |-> btn]

\* Configurations of the running machine: the committed parameters (12 MHz,
\* 6.4 MHz, 64 -> 15 ticks; BTN_PORT is commented out in the source as
\* committed), the documented triple with the largest legal period (20 MHz,
\* 6.4 MHz, 64 -> 25 ticks), a legal triple with a short period (4 MHz,
\* 6.4 MHz, 64 -> 5 ticks), each with and without the range-select feature,
\* and the unsupported prescaler 3.  All running triples meet the conditions
\* of lines 36-40.
RunConfigs ==
  { Config(t[1], t[2], t[3], b) :
      t \in { <<12000000, 6400000, 64>>, <<20000000, 6400000, 64>>,
              <<4000000, 6400000, 64>>, <<12000000, 6400000, 3>> },
      b \in BOOLEAN }

\* Parameter triples for the resolver alone: legal and illegal ones.
ClkSet == {4000000, 8000000, 12000000, 16000000, 20000000}
MsbSet == {100000, 3200000, 5120000, 6000000, 6400000}
PsSet == {1, 2, 3, 4, 8, 16, 32, 64, 100, 128, 256, 512}
ResolverConfigs == { Config(c, m, p, b) : c \in ClkSet, m \in MsbSet, p \in PsSet, b \in BOOLEAN }

\* ------------------------------------------------------------------- state
VARIABLES
  cfg,          \* F_CLK, F_MSB, PS_TMR, BTN_PORT: the macros of the build
  pc,           \* foreground position
  ipc,          \* position inside isr(); "idle" when it is not executing
  cyc,          \* freq_init's local
  tmr_pr,       \* global, 8 bit
  tmr_prx1,     \* global, 8 bit
  TMR0,         \* the 8-bit timer register
  T0IF, T0IE, GIE,
  OPTION_REG,   \* [T0CS, PSA, PS]
  GPIO,         \* output latch of CLK, MR, LED
  TRISIO,       \* the pins that are inputs
  btn,          \* level on the button pin (0 = pressed)
  count,        \* the HC4040's count
  \* history variables (observers; no action's guard reads them)
  log,          \* what the current / last isr() invocation did
  d,            \* #OPEN-entry events - #CLOSED-entry events
  ticks,        \* timer ticks since the last reload by isr()
  pr_read,      \* the last reload: tmr_pr as read (val), the value loaded, whether
                \* tmr_pr had been assigned, the length C4 expects (0: none)
  pr_assigned,  \* tmr_pr has been assigned by the foreground
  stable,       \* 0: button changed; 1: sampled since; 2: a whole iteration since
  hold,         \* count at the last OPEN->CLOSED toggle; Unknown outside a hold phase
  sample,       \* button level read by the loop's last test; Unknown before it
  pulsed        \* a reset pulse has been completed

cpu == <<pc, ipc, cyc, tmr_pr, tmr_prx1>>
tmr == <<TMR0, T0IF, T0IE, GIE, OPTION_REG>>
io == <<GPIO, TRISIO, btn, count>>
hist == <<log, d, ticks, pr_read, pr_assigned, stable, hold, sample, pulsed>>
vars == <<cfg, cpu, tmr, io, hist>>

\* ------------------------------------------------------------ pure helpers
\* line 101: cyc = (uint32_t)(F_CLK/1000000ul/4) * (1000ul<<11) / (F_MSB/1000ul),
\* stored in a uint16_t.  (The 32-bit product does not wrap for any F_CLK
\* below 4 GHz.)
CycShift10(c) ==
  ((((c.F_CLK \div 1000000) \div 4) * (1000 * 1024)) \div (c.F_MSB \div 1000)) % 65536

Cyc(c) ==
  ((((c.F_CLK \div 1000000) \div 4) * (1000 * 2048)) \div (c.F_MSB \div 1000)) % 65536

\* -(x) stored in a char
Neg8(x) == (256 - (x % 256)) % 256

\* lines 123-133: the switch's cases; Fault is the default branch
Fault == 0 - 2
PrescalerCodeNoDefault(ps) ==
  CASE ps = 256 -> 7
    [] ps = 128 -> 6
    [] ps = 64 -> 5
    [] ps = 32 -> 4
    [] ps = 16 -> 3
    [] ps = 8 -> 2
    [] ps = 4 -> 1
    [] OTHER -> 0

PrescalerCode(ps) ==
  CASE ps = 256 -> 7
    [] ps = 128 -> 6
    [] ps = 64 -> 5
    [] ps = 32 -> 4
    [] ps = 16 -> 3
    [] ps = 8 -> 2
    [] ps = 4 -> 1
    [] ps = 2 -> 0
    [] OTHER -> Fault

\* lines 124-131: tmr_prx1 = -(cyc / PS_TMR)
Prx1(c, ps) == Neg8(c \div ps)

\* line 149: tmr_pr = 10 * tmr_prx1, in a char
TenTimesUnscaled(x) == x
TenTimesSaturating(x) == IF 10 * x > 255 THEN 255 ELSE 10 * x

TenTimes(x) == (10 * x) % 256

\* line 149: IO_GET(BTN_PORT, BTN_PIN)==0 (the button is active low)
BtnActiveHigh(level) == level # 0

BtnAsserted(level) == level = 0

\* line 86: the value isr() loads into TMR0
ReloadValueX1(pr, prx1) == prx1

ReloadValue(pr, prx1) == pr

\* line 88: IO_FLP on one bit
SetBit(v) == 1

FlipBit(v) == 1 - v

\* line 89: if (IO_GET(CNTR_PORT, CNTR_CLK))
PulseConditionAlways(clk) == TRUE

PulseConditionInverted(clk) == clk = 0

PulseCondition(clk) == clk # 0

\* ticks from a load of v until TMR0 overflows
Mag(v) == IF v = 0 THEN 256 ELSE 256 - v

\* the levels the firmware drives
Drives(p) == p \notin TRISIO
CLKHigh == Drives(CNTR_CLK) /\ GPIO[CNTR_CLK] = 1
CLKLow == Drives(CNTR_CLK) /\ GPIO[CNTR_CLK] = 0
MRHigh == Drives(CNTR_MR) /\ GPIO[CNTR_MR] = 1
MRLow == Drives(CNTR_MR) /\ GPIO[CNTR_MR] = 0

IntPending == T0IF = 1 /\ T0IE = 1 /\ GIE = 1
\* the foreground runs only when isr() does not and no interrupt is pending
FgRuns == ipc = "idle" /\ ~IntPending

NoLog == [dir |-> "none", flips |-> 0, mr |-> <<>>]
NoRead == [val |-> Unknown, loaded |-> Unknown, assigned |-> FALSE, expect |-> 0]

\* -------------------------------------------------------------------- Init
InitWith(configs) ==
  /\ cfg \in configs
  /\ pc = "mcu_init" /\ ipc = "idle"
  /\ cyc = Unknown
  /\ tmr_pr = 0 /\ tmr_prx1 = 0
  /\ TMR0 = Unknown
  /\ T0IF = 0 /\ T0IE = 0 /\ GIE = 0
  /\ OPTION_REG = [T0CS |-> 1, PSA |-> 1, PS |-> 7]
  /\ GPIO = [p \in OutPins |-> Unknown]
  /\ TRISIO = AllPins
  /\ btn \in {0, 1}
  /\ count \in 0..MaxCount
  /\ log = NoLog /\ d = 0 /\ ticks = 0 /\ pr_read = NoRead
  /\ pr_assigned = FALSE /\ stable = 0 /\ hold = Unknown
  /\ sample = Unknown /\ pulsed = FALSE

Init == InitWith(RunConfigs)
InitResolver == InitWith(ResolverConfigs)


\* -------------------------------------------------------------- foreground
\* line 143: mcu_init() (fixed hardware initialisation; it touches none of
\* the modelled registers)
main_mcu_init ==
  /\ FgRuns /\ pc = "mcu_init"
  /\ pc' = "fi_cyc"
  /\ UNCHANGED <<cfg, ipc, cyc, tmr_pr, tmr_prx1, tmr, io, hist>>

\* line 101
fi_cyc ==
  /\ FgRuns /\ pc = "fi_cyc"
  /\ cyc' = Cyc(cfg)
  /\ pc' = "fi_clk"
  /\ UNCHANGED <<cfg, ipc, tmr_pr, tmr_prx1, tmr, io, hist>>

\* lines 104-109: pull-ups (not modelled), then IO_CLR(CNTR_PORT, CNTR_CLK)
fi_clk ==
  /\ FgRuns /\ pc = "fi_clk"
  /\ GPIO' = [GPIO EXCEPT ![CNTR_CLK] = 0]
  /\ pc' = "fi_mr"
  /\ UNCHANGED <<cfg, ipc, cyc, tmr_pr, tmr_prx1, tmr, TRISIO, btn, count, hist>>

\* line 109: IO_SET(CNTR_PORT, CNTR_MR)
fi_mr_low ==
  /\ FgRuns /\ pc = "fi_mr"
  /\ GPIO' = [GPIO EXCEPT ![CNTR_MR] = 0]
  /\ pc' = "fi_out"
  /\ UNCHANGED <<cfg, ipc, cyc, tmr_pr, tmr_prx1, tmr, TRISIO, btn, count, hist>>

fi_mr ==
  /\ FgRuns /\ pc = "fi_mr"
  /\ GPIO' = [GPIO EXCEPT ![CNTR_MR] = 1]
  /\ pc' = "fi_out"
  /\ UNCHANGED <<cfg, ipc, cyc, tmr_pr, tmr_prx1, tmr, TRISIO, btn, count, hist>>

\* line 109: IO_OUT(CNTR_DDR, CNTR_CLK | CNTR_MR); from here the firmware
\* drives both lines, and a high MR holds the counter at zero
fi_out ==
  /\ FgRuns /\ pc = "fi_out"
  /\ TRISIO' = TRISIO \ {CNTR_CLK, CNTR_MR}
  /\ count' = IF GPIO[CNTR_MR] = 1 THEN 0 ELSE count
  /\ pc' = IF cfg.BTN_PORT THEN "fi_btn" ELSE "fi_tmr"
  /\ UNCHANGED <<cfg, ipc, cyc, tmr_pr, tmr_prx1, tmr, GPIO, btn, hist>>

\* lines 111-116, compiled only with BTN_PORT
fi_btn ==
  /\ FgRuns /\ pc = "fi_btn"
  /\ TRISIO' = (TRISIO \cup {BTN_PIN}) \ {LED_PIN}
  /\ pc' = "fi_tmr"
  /\ UNCHANGED <<cfg, ipc, cyc, tmr_pr, tmr_prx1, tmr, GPIO, btn, count, hist>>

\* lines 120-121: T0CS = 0; PSA = 0.  TMR0 starts to count instruction
\* cycles from whatever it holds (line 119, TMR0 = 0, is commented out).
fi_tmr ==
  /\ FgRuns /\ pc = "fi_tmr"
  /\ OPTION_REG' = [OPTION_REG EXCEPT !.T0CS = 0, !.PSA = 0]
  /\ pc' = "fi_switch"
  /\ UNCHANGED <<cfg, ipc, cyc, tmr_pr, tmr_prx1, TMR0, T0IF, T0IE, GIE, io, hist>>

\* lines 123-133: switch (PS_TMR)
fi_switch ==
  /\ FgRuns /\ pc = "fi_switch"
  /\ IF PrescalerCode(cfg.PS_TMR) = Fault
       THEN /\ pc' = "fault"
            /\ UNCHANGED <<tmr_prx1, OPTION_REG>>
       ELSE /\ OPTION_REG' = [OPTION_REG EXCEPT !.PS = PrescalerCode(cfg.PS_TMR)]
            /\ tmr_prx1' = Prx1(cyc, cfg.PS_TMR)
            /\ pc' = "fi_pr"
  /\ UNCHANGED <<cfg, ipc, cyc, tmr_pr, TMR0, T0IF, T0IE, GIE, io, hist>>

\* line 132: default: while (1);
fault_loop ==
  /\ FgRuns /\ pc = "fault"
  /\ UNCHANGED vars

\* line 134: tmr_pr = tmr_prx1
fi_pr_skip ==
  /\ FgRuns /\ pc = "fi_pr"
  /\ pr_assigned' = TRUE
  /\ pc' = "fi_t0if"
  /\ UNCHANGED <<cfg, ipc, cyc, tmr_pr, tmr_prx1, tmr, io, log, d, ticks, pr_read, stable, hold, sample, pulsed>>

fi_pr ==
  /\ FgRuns /\ pc = "fi_pr"
  /\ tmr_pr' = tmr_prx1
  /\ pr_assigned' = TRUE
  /\ pc' = "fi_t0if"
  /\ UNCHANGED <<cfg, ipc, cyc, tmr_prx1, tmr, io, log, d, ticks, pr_read, stable, hold, sample, pulsed>>

\* line 136: T0IF = 0
fi_t0if ==
  /\ FgRuns /\ pc = "fi_t0if"
  /\ T0IF' = 0
  /\ pc' = "fi_t0ie"
  /\ UNCHANGED <<cfg, ipc, cyc, tmr_pr, tmr_prx1, TMR0, T0IE, GIE, OPTION_REG, io, hist>>

\* line 137: T0IE = 1
fi_t0ie ==
  /\ FgRuns /\ pc = "fi_t0ie"
  /\ T0IE' = 1
  /\ pc' = "ei"
  /\ UNCHANGED <<cfg, ipc, cyc, tmr_pr, tmr_prx1, TMR0, T0IF, GIE, OPTION_REG, io, hist>>

\* line 145: ei()
main_ei_skip ==
  /\ FgRuns /\ pc = "ei"
  /\ pc' = "loop"
  /\ UNCHANGED <<cfg, ipc, cyc, tmr_pr, tmr_prx1, tmr, io, hist>>

main_ei ==
  /\ FgRuns /\ pc = "ei"
  /\ GIE' = 1
  /\ pc' = "loop"
  /\ UNCHANGED <<cfg, ipc, cyc, tmr_pr, tmr_prx1, TMR0, T0IF, T0IE, OPTION_REG, io, hist>>

\* lines 146-152 without BTN_PORT: while (1) {}
loop_idle ==
  /\ FgRuns /\ pc = "loop" /\ ~cfg.BTN_PORT
  /\ UNCHANGED vars

\* line 149: if (IO_GET(BTN_PORT, BTN_PIN)==0)
loop_test ==
  /\ FgRuns /\ pc = "loop" /\ cfg.BTN_PORT
  /\ pc' = IF BtnAsserted(btn) THEN "set10" ELSE "set1"
  /\ stable' = IF stable = 0 THEN 1 ELSE stable
  /\ sample' = btn
  /\ UNCHANGED <<cfg, ipc, cyc, tmr_pr, tmr_prx1, tmr, io, log, d, ticks, pr_read, pr_assigned, hold, pulsed>>

\* line 149: tmr_pr = 10 * tmr_prx1 (one store of one byte)
loop_set10 ==
  /\ FgRuns /\ pc = "set10"
  /\ tmr_pr' = TenTimes(tmr_prx1)
  /\ pr_assigned' = TRUE
  /\ pc' = "led10"
  /\ UNCHANGED <<cfg, ipc, cyc, tmr_prx1, tmr, io, log, d, ticks, pr_read, stable, hold, sample, pulsed>>

\* line 149: IO_SET(BTN_PORT, LED_PIN) (one bit-set instruction); the
\* iteration ends
loop_led10_port ==
  /\ FgRuns /\ pc = "led10"
  /\ GPIO' = [p \in OutPins |-> IF p = LED_PIN THEN 1 ELSE 0]
  /\ stable' = IF stable = 1 THEN 2 ELSE stable
  /\ pc' = "loop"
  /\ UNCHANGED <<cfg, ipc, cyc, tmr_pr, tmr_prx1, tmr, TRISIO, btn, count, log, d, ticks, pr_read, pr_assigned, hold, sample, pulsed>>

loop_led10 ==
  /\ FgRuns /\ pc = "led10"
  /\ GPIO' = [GPIO EXCEPT ![LED_PIN] = 1]
  /\ stable' = IF stable = 1 THEN 2 ELSE stable
  /\ pc' = "loop"
  /\ UNCHANGED <<cfg, ipc, cyc, tmr_pr, tmr_prx1, tmr, TRISIO, btn, count, log, d, ticks, pr_read, pr_assigned, hold, sample, pulsed>>

\* line 150: tmr_pr = tmr_prx1
loop_set1 ==
  /\ FgRuns /\ pc = "set1"
  /\ tmr_pr' = tmr_prx1
  /\ pr_assigned' = TRUE
  /\ pc' = "led1"
  /\ UNCHANGED <<cfg, ipc, cyc, tmr_prx1, tmr, io, log, d, ticks, pr_read, stable, hold, sample, pulsed>>

\* line 150: IO_CLR(BTN_PORT, LED_PIN); the iteration ends
loop_led1 ==
  /\ FgRuns /\ pc = "led1"
  /\ GPIO' = [GPIO EXCEPT ![LED_PIN] = 0]
  /\ stable' = IF stable = 1 THEN 2 ELSE stable
  /\ pc' = "loop"
  /\ UNCHANGED <<cfg, ipc, cyc, tmr_pr, tmr_prx1, tmr, TRISIO, btn, count, log, d, ticks, pr_read, pr_assigned, hold, sample, pulsed>>

\* --------------------------------------------------------------------- isr
\* the hardware vectors to isr() and clears GIE
isr_enter ==
  /\ ipc = "idle" /\ IntPending
  /\ ipc' = "t0if"
  /\ GIE' = 0
  /\ log' = NoLog
  /\ UNCHANGED <<cfg, pc, cyc, tmr_pr, tmr_prx1, TMR0, T0IF, T0IE, OPTION_REG, io, d, ticks, pr_read, pr_assigned, stable, hold, sample, pulsed>>

\* line 85: T0IF = 0
isr_t0if ==
  /\ ipc = "t0if"
  /\ T0IF' = 0
  /\ ipc' = "reload"
  /\ UNCHANGED <<cfg, pc, cyc, tmr_pr, tmr_prx1, TMR0, T0IE, GIE, OPTION_REG, io, hist>>

\* line 86: TMR0 = tmr_pr.  A new timer period starts here.
isr_reload ==
  /\ ipc = "reload"
  /\ TMR0' = ReloadValue(tmr_pr, tmr_prx1)
  /\ ticks' = 0
  /\ pr_read' = [val |-> tmr_pr,
                 loaded |-> ReloadValue(tmr_pr, tmr_prx1),
                 assigned |-> pr_assigned,
                 expect |-> IF cfg.BTN_PORT /\ stable = 2
                              THEN (IF btn = 0 THEN 10 * Mag(tmr_prx1) ELSE Mag(tmr_prx1))
                              ELSE 0]
  /\ ipc' = "flip"
  /\ UNCHANGED <<cfg, pc, cyc, tmr_pr, tmr_prx1, T0IF, T0IE, GIE, OPTION_REG, io, log, d, pr_assigned, stable, hold, sample, pulsed>>

\* line 88: IO_FLP(CNTR_PORT, CNTR_CLK)
isr_flip ==
  /\ ipc = "flip"
  /\ LET new == FlipBit(GPIO[CNTR_CLK]) IN
       /\ GPIO' = [GPIO EXCEPT ![CNTR_CLK] = new]
       /\ log' = [log EXCEPT !.flips = @ + (IF new # GPIO[CNTR_CLK] THEN 1 ELSE 0),
                             !.dir = IF new = 1 THEN "open" ELSE "close"]
       /\ d' = IF new = 1 THEN d + 1 ELSE d - 1
       /\ hold' = IF new = 1 THEN Unknown ELSE count
  /\ ipc' = "test"
  /\ UNCHANGED <<cfg, pc, cyc, tmr_pr, tmr_prx1, tmr, TRISIO, btn, count, ticks, pr_read, pr_assigned, stable, sample, pulsed>>

\* line 89: if (IO_GET(CNTR_PORT, CNTR_CLK))
isr_test ==
  /\ ipc = "test"
  /\ ipc' = IF PulseCondition(GPIO[CNTR_CLK]) THEN "mr_set" ELSE "ret"
  /\ UNCHANGED <<cfg, pc, cyc, tmr_pr, tmr_prx1, tmr, io, hist>>

\* line 90: IO_SET(CNTR_PORT, CNTR_MR); MR high clears the counter
isr_mr_set ==
  /\ ipc = "mr_set"
  /\ GPIO' = [GPIO EXCEPT ![CNTR_MR] = 1]
  /\ count' = 0
  /\ log' = [log EXCEPT !.mr = Append(@, "set")]
  /\ ipc' = "dly"
  /\ UNCHANGED <<cfg, pc, cyc, tmr_pr, tmr_prx1, tmr, TRISIO, btn, d, ticks, pr_read, pr_assigned, stable, hold, sample, pulsed>>

\* line 92: CNTR_DLY()
isr_dly ==
  /\ ipc = "dly"
  /\ ipc' = "mr_clr"
  /\ UNCHANGED <<cfg, pc, cyc, tmr_pr, tmr_prx1, tmr, io, hist>>

\* line 93: IO_CLR(CNTR_PORT, CNTR_MR)
isr_mr_clr_skip ==
  /\ ipc = "mr_clr"
  /\ log' = [log EXCEPT !.mr = Append(@, "clr")]
  /\ pulsed' = TRUE
  /\ ipc' = "ret"
  /\ UNCHANGED <<cfg, pc, cyc, tmr_pr, tmr_prx1, tmr, io, d, ticks, pr_read, pr_assigned, stable, hold, sample>>

isr_mr_clr ==
  /\ ipc = "mr_clr"
  /\ GPIO' = [GPIO EXCEPT ![CNTR_MR] = 0]
  /\ log' = [log EXCEPT !.mr = Append(@, "clr")]
  /\ pulsed' = TRUE
  /\ ipc' = "ret"
  /\ UNCHANGED <<cfg, pc, cyc, tmr_pr, tmr_prx1, tmr, TRISIO, btn, count, d, ticks, pr_read, pr_assigned, stable, hold, sample>>

\* line 95: return from interrupt; the hardware sets GIE again
isr_ret ==
  /\ ipc = "ret"
  /\ ipc' = "idle"
  /\ GIE' = 1
  /\ UNCHANGED <<cfg, pc, cyc, tmr_pr, tmr_prx1, TMR0, T0IF, T0IE, OPTION_REG, io, hist>>

\* ------------------------------------------------------------- environment
\* one prescaled timer tick, once the timer counts instruction cycles
\* (T0CS = 0): TMR0 counts up and sets T0IF when it wraps.  The first tick
\* finds whatever TMR0 held at power-on.
Tick ==
  /\ OPTION_REG.T0CS = 0
  /\ ipc = "idle" /\ ~IntPending
  /\ \E v \in (IF TMR0 = Unknown THEN 0..255 ELSE {TMR0}) :
       /\ TMR0' = (v + 1) % 256
       /\ T0IF' = IF v = 255 THEN 1 ELSE T0IF
  /\ ticks' = IF pr_read.val # Unknown THEN ticks + 1 ELSE ticks
  /\ UNCHANGED <<cfg, cpu, T0IE, GIE, OPTION_REG, io, log, d, pr_read, pr_assigned, stable, hold, sample, pulsed>>

\* one pulse on Fin: it reaches the counter's clock unless CNTR_CLK is driven
\* low, and counts unless MR is held high
FinPulse ==
  /\ count < MaxCount
  /\ ~CLKLow /\ ~MRHigh
  /\ count' = count + 1
  /\ UNCHANGED <<cfg, cpu, tmr, GPIO, TRISIO, btn, hist>>

\* the range-select button is pressed or released
BtnChange ==
  /\ cfg.BTN_PORT
  /\ btn' = 1 - btn
  /\ stable' = 0
  /\ UNCHANGED <<cfg, cpu, tmr, GPIO, TRISIO, count, log, d, ticks, pr_read, pr_assigned, hold, sample, pulsed>>

\* ---------------------------------------------------------- specifications
Next ==
  \/ main_mcu_init \/ fi_cyc \/ fi_clk \/ fi_mr \/ fi_out \/ fi_btn \/ fi_tmr
  \/ fi_switch \/ fault_loop \/ fi_pr \/ fi_t0if \/ fi_t0ie \/ main_ei
  \/ loop_idle \/ loop_test \/ loop_set10 \/ loop_led10 \/ loop_set1 \/ loop_led1
  \/ isr_enter \/ isr_t0if \/ isr_reload \/ isr_flip \/ isr_test
  \/ isr_mr_set \/ isr_dly \/ isr_mr_clr \/ isr_ret
  \/ Tick \/ FinPulse \/ BtnChange

Spec == Init /\ [][Next]_vars

\* The running machine with its scheduling: the timer keeps counting, the
\* CPU keeps executing the handler once it has entered it (and enters it
\* when the interrupt is pending), and executes main() when no interrupt
\* is pending or in service.
ForegroundStep ==
  \/ main_mcu_init \/ fi_cyc \/ fi_clk \/ fi_mr \/ fi_out \/ fi_btn \/ fi_tmr
  \/ fi_switch \/ fi_pr \/ fi_t0if \/ fi_t0ie \/ main_ei
  \/ loop_test \/ loop_set10 \/ loop_led10 \/ loop_set1 \/ loop_led1
IsrStep ==
  \/ isr_enter \/ isr_t0if \/ isr_reload \/ isr_flip \/ isr_test
  \/ isr_mr_set \/ isr_dly \/ isr_mr_clr \/ isr_ret

SpecLive ==
  /\ Init /\ [][Next]_vars
  /\ WF_vars(Tick) /\ WF_vars(IsrStep) /\ WF_vars(ForegroundStep)

\* the resolver alone: main() up to the end of freq_init(), over
\* ResolverConfigs
NextResolver ==
  \/ main_mcu_init \/ fi_cyc \/ fi_clk \/ fi_mr \/ fi_out \/ fi_btn \/ fi_tmr
  \/ fi_switch \/ fault_loop \/ fi_pr \/ fi_t0if \/ fi_t0ie

SpecResolver == InitResolver /\ [][NextResolver]_vars

\* The running machine with the 10x select compiled in, over one legal
\* triple for every reload magnitude the configuration rules allow (line
\* 40: the quotient is at most 25): F_CLK = 4m MHz, F_MSB = 32 MHz and
\* PS_TMR = 64 give cyc = 64m and tmr_prx1 = -m.  The frequency input is
\* left out: nothing in the firmware reads the external counter.
LegalMax == 25
ScaleConfigs == { Config(4000000 * m, 32000000, 64, TRUE) : m \in 1..LegalMax }
InitScale == InitWith(ScaleConfigs) /\ count = 0
NextScale ==
  \/ main_mcu_init \/ fi_cyc \/ fi_clk \/ fi_mr \/ fi_out \/ fi_btn \/ fi_tmr
  \/ fi_switch \/ fi_pr \/ fi_t0if \/ fi_t0ie \/ main_ei
  \/ loop_test \/ loop_set10 \/ loop_led10 \/ loop_set1 \/ loop_led1
  \/ isr_enter \/ isr_t0if \/ isr_reload \/ isr_flip \/ isr_test
  \/ isr_mr_set \/ isr_dly \/ isr_mr_clr \/ isr_ret
  \/ Tick \/ BtnChange

SpecScale == InitScale /\ [][NextScale]_vars

\* ------------------------------------------------------------------ claims
InIsrAfterFlip == ipc \in {"test", "mr_set", "dly", "mr_clr", "ret"}
Armed == pc \in {"loop", "set10", "led10", "set1", "led1"}
Pulse == <<"set", "clr">>

\* C1: an isr() invocation emits a reset pulse (CNTR_MR set high, then
\* cleared) if and only if it toggled CNTR_CLK from low to high; an
\* invocation that toggled it from high to low does not write CNTR_MR.
C1_ResetPulseIffOpen ==
  /\ log.mr \in {<<>>, <<"set">>, Pulse}
  /\ (log.dir = "close" => log.mr = <<>>)
  /\ (log.mr # <<>> => log.dir = "open" /\ log.flips = 1)
  /\ (ipc \in {"ret", "idle"} /\ log.dir = "open" => log.mr = Pulse /\ MRLow)
  /\ (log.mr = <<"set">> => MRHigh)

C1_Witness ==
  /\ ipc = "ret" /\ log.dir = "open" /\ log.flips = 1 /\ log.mr = Pulse /\ MRLow
  /\ Armed

\* C2: once armed, every isr() invocation toggles CNTR_CLK exactly once, the
\* first toggle opens the gate (CNTR_CLK idles low after freq_init), and
\* OPEN-entry and CLOSED-entry events alternate: their numbers differ by at
\* most one (d is their difference), whatever the foreground does meanwhile.
C2_GateAlternates ==
  /\ d \in {0, 1}
  /\ (Drives(CNTR_CLK) => (GPIO[CNTR_CLK] = 1 <=> d = 1))
  /\ (InIsrAfterFlip => log.flips = 1)
  /\ (ipc = "idle" /\ log # NoLog => log.flips = 1)

C2_Witness ==
  /\ d = 0 /\ log.dir = "close" /\ log.flips = 1 /\ ipc = "idle" /\ pc = "led10"

\* C3: a timer period lasts exactly the reload interval read at its start:
\* TMR0 overflows (T0IF set; it stays set until line 85 of the next
\* invocation, and the reload follows) exactly when 256 - tmr_pr ticks have
\* passed since the reload, tmr_pr being the value isr() read at that
\* reload, also when the foreground has overwritten tmr_pr since.
C3_PhaseLastsReloadInterval ==
  pr_read.val # Unknown =>
    /\ ticks <= Mag(pr_read.val)
    /\ (ticks = Mag(pr_read.val)) <=> (T0IF = 1 \/ ipc = "reload")

C3_Witness ==
  /\ pr_read.val # Unknown /\ T0IF = 1 /\ ipc = "idle"
  /\ ticks = Mag(pr_read.val)
  /\ tmr_pr # pr_read.val

\* C4: with BTN_PORT, a period that begins (reload) after the button has been
\* held pressed for a whole loop iteration lasts exactly 10 times the
\* nominal number of ticks, and one that begins after it has been held
\* released for a whole iteration lasts exactly the nominal number
\* (pr_read.expect is that length, recorded at the reload; 0 when the button
\* had not been held for a whole iteration).
C4_RangeSelectPeriod ==
  (cfg.BTN_PORT /\ pr_read.expect # 0) =>
    /\ ticks <= pr_read.expect
    /\ (T0IF = 1 \/ ipc = "reload") => ticks = pr_read.expect

C4_Witness ==
  /\ cfg.BTN_PORT /\ cfg.F_CLK = 12000000
  /\ pr_read.expect = 10 * Mag(tmr_prx1) /\ T0IF = 1 /\ ticks = 150

\* The legality conditions of the user configuration (lines 36-40), for
\* triples whose F_CLK is a multiple of 4 MHz and whose F_MSB is a multiple
\* of 1 kHz (all of ClkSet, MsbSet), where the first two divisions of the
\* formula are exact.
Cycles(c) == ((c.F_CLK \div 4000000) * 2048000) \div (c.F_MSB \div 1000)
CyclesWhole(c) == ((c.F_CLK \div 4000000) * 2048000) % (c.F_MSB \div 1000) = 0
Illegal(c) ==
  \/ ~CyclesWhole(c)
  \/ Cycles(c) % c.PS_TMR # 0
  \/ Cycles(c) \div c.PS_TMR > 25
ValidPrescalers == {2, 4, 8, 16, 32, 64, 128, 256}
AfterSwitch == pc \in {"fi_pr", "fi_t0if", "fi_t0ie", "ei", "loop", "set10", "led10", "set1", "led1"}

\* C5 as stated: for every triple whose cycles value is not whole, or not
\* divisible by the prescaler, or gives a quotient above 25, freq_init()
\* halts and never assigns tmr_prx1 / tmr_pr nor sets T0IE.
C5_Original ==
  Illegal(cfg) => ~AfterSwitch /\ T0IE = 0 /\ ~pr_assigned

\* C5 amended: freq_init() halts (before any assignment to tmr_prx1 or
\* tmr_pr, T0IE clear) exactly for the prescalers that are none of
\* 2,4,...,256; every triple with a supported prescaler is accepted, and
\* tmr_prx1 is then the 8-bit negative of (cycles truncated to a whole
\* number and to 16 bits) divided by the prescaler, fraction dropped.
C5_RejectsOnlyBadPrescaler ==
  /\ (pc = "fault" =>
        /\ cfg.PS_TMR \notin ValidPrescalers
        /\ T0IE = 0 /\ tmr_prx1 = 0 /\ tmr_pr = 0 /\ ~pr_assigned)
  /\ (AfterSwitch =>
        /\ cfg.PS_TMR \in ValidPrescalers
        /\ tmr_prx1 = (256 - (((Cycles(cfg) % 65536) \div cfg.PS_TMR) % 256)) % 256)
  /\ (pc = "ei" => T0IE = 1 /\ tmr_pr = tmr_prx1)

\* 20 MHz, 3.2 MHz, 64: cycles 3200, quotient 50 > 25, accepted with
\* tmr_prx1 = 206
C5_Witness ==
  /\ cfg.F_CLK = 20000000 /\ cfg.F_MSB = 3200000 /\ cfg.PS_TMR = 64
  /\ Illegal(cfg)
  /\ pc = "ei" /\ T0IE = 1 /\ tmr_prx1 = 206 /\ tmr_pr = 206

\* C6: the documented combinations give the documented magnitudes:
\* (20 MHz, 6.4 MHz, 64) 25, (16 MHz, 6.4 MHz, 64) 20, (12 MHz, 6.4 MHz, 64)
\* 15, (20 MHz, 3.2 MHz, 128) 25; tmr_prx1 is 256 minus the magnitude, and
\* cyc is magnitude times prescaler (nothing lost in 16 bits).
Documented ==
  { <<20000000, 6400000, 64, 25>>, <<16000000, 6400000, 64, 20>>,
    <<12000000, 6400000, 64, 15>>, <<20000000, 3200000, 128, 25>> }
C6_DocumentedMagnitudes ==
  \A e \in Documented :
    (cfg.F_CLK = e[1] /\ cfg.F_MSB = e[2] /\ cfg.PS_TMR = e[3]) =>
      /\ (cyc # Unknown => cyc = e[4] * e[3])
      /\ (pc \notin {"mcu_init", "fi_cyc", "fi_clk", "fi_mr", "fi_out", "fi_btn", "fi_tmr", "fi_switch"}
            => pc # "fault" /\ tmr_prx1 = 256 - e[4])

C6_Witness ==
  /\ cfg.F_CLK = 20000000 /\ cfg.F_MSB = 3200000 /\ cfg.PS_TMR = 128
  /\ pc = "ei" /\ cyc = 3200 /\ tmr_prx1 = 231

\* C7: with an unsupported prescaler the timer is never armed: T0IE and GIE
\* stay clear, isr() never runs, main's loop is never reached, and from
\* freq_init's line 109 on CNTR_CLK stays low and CNTR_MR stays at the (high)
\* level freq_init gave it.
C7_FaultContainment ==
  cfg.PS_TMR \notin ValidPrescalers =>
    /\ T0IE = 0 /\ GIE = 0
    /\ ipc = "idle" /\ log = NoLog /\ pr_read = NoRead
    /\ ~AfterSwitch
    /\ (pc \in {"fi_btn", "fi_tmr", "fi_switch", "fault"} => CLKLow /\ MRHigh)

\* halted, and the timer has overflowed without any interrupt
C7_Witness ==
  /\ cfg.PS_TMR = 3 /\ pc = "fault" /\ T0IF = 1 /\ CLKLow /\ MRHigh

\* C8 as stated: CNTR_MR is never high while CNTR_CLK is high.
C8_Original == ~(MRHigh /\ CLKHigh)

\* C8 amended: CNTR_MR is high while CNTR_CLK is high only inside isr(),
\* between the toggle that opens the gate and the IO_CLR that ends the
\* pulse; whenever isr() is not executing the two are never high together.
\* While MR is high the counter stays at zero.
C8_OverlapOnlyInsidePulse ==
  /\ (MRHigh /\ CLKHigh => ipc \in {"test", "mr_set", "dly", "mr_clr"} /\ log.dir = "open")
  /\ (ipc = "idle" => ~(MRHigh /\ CLKHigh))
  /\ (MRHigh => count = 0)

\* an open window outside isr(), a pulse counted, MR low
C8_Witness ==
  /\ ipc = "idle" /\ CLKHigh /\ MRLow /\ count = 1 /\ log.mr = Pulse

\* C9: during a hold phase (from an OPEN->CLOSED toggle until the next
\* CLOSED->OPEN toggle) CNTR_CLK stays low, CNTR_MR stays low, and the
\* counter keeps the count it had at the toggle.
C9_HoldPhaseFrozen ==
  hold # Unknown => CLKLow /\ MRLow /\ count = hold

C9_Witness ==
  /\ hold = 1 /\ count = 1 /\ ipc = "idle" /\ ticks > 0 /\ CLKLow

\* C10: interrupts are enabled only after tmr_pr has been assigned, and the
\* value isr() loads into TMR0 is tmr_prx1 or, with BTN_PORT, the 8-bit value
\* of 10 * tmr_prx1: a value the foreground stored, never the initial 0.
C10_ReloadIsWholeWrite ==
  /\ (T0IE = 1 \/ GIE = 1 \/ ipc # "idle" => pr_assigned)
  /\ (pr_read.val # Unknown =>
        /\ pr_read.assigned
        /\ pr_read.loaded = pr_read.val
        /\ pr_read.loaded \in ({tmr_prx1} \cup (IF cfg.BTN_PORT THEN {(10 * tmr_prx1) % 256} ELSE {}))
        /\ pr_read.loaded # 0)
  /\ (ipc = "flip" => TMR0 = pr_read.loaded)

\* the 10x value is loaded although the foreground has stored the nominal
\* value again since
C10_Witness ==
  /\ ipc = "flip" /\ pr_read.loaded = (10 * tmr_prx1) % 256 /\ TMR0 = pr_read.loaded
  /\ pr_read.loaded # tmr_prx1

\* C11: with BTN_PORT, at the end of a loop iteration (pc back at the loop
\* head after a test) LED_PIN is high exactly when the test read the button
\* low, and tmr_pr holds 10 * tmr_prx1 (8 bit) in that case and tmr_prx1
\* otherwise; this includes the states in which isr() has preempted the
\* loop there.  Inside the iteration tmr_pr already matches the sample once
\* it has been stored.
C11_StatusMirrorsSample ==
  cfg.BTN_PORT =>
    /\ (pc = "loop" /\ sample # Unknown =>
          /\ Drives(LED_PIN)
          /\ (GPIO[LED_PIN] = 1 <=> sample = 0)
          /\ GPIO[LED_PIN] \in {0, 1}
          /\ tmr_pr = (IF sample = 0 THEN (10 * tmr_prx1) % 256 ELSE tmr_prx1))
    /\ (pc \in {"set10", "led10"} => sample = 0)
    /\ (pc \in {"set1", "led1"} => sample = 1)
    /\ (pc = "led10" => tmr_pr = (10 * tmr_prx1) % 256)
    /\ (pc = "led1" => tmr_pr = tmr_prx1)

\* the iteration that read the button low has ended, the button has been
\* released since, and isr() is executing
C11_Witness ==
  /\ cfg.BTN_PORT /\ pc = "loop" /\ sample = 0 /\ btn = 1
  /\ GPIO[LED_PIN] = 1 /\ tmr_pr = (10 * tmr_prx1) % 256
  /\ ipc = "test"

\* C12: single writer, single reader.  No step of isr() (a step that moves
\* ipc) changes tmr_pr, tmr_prx1 or LED_PIN (latch or direction); no step of
\* the foreground loop (a step that moves pc from a loop position) changes
\* TMR0, CNTR_CLK or CNTR_MR; and no step at all changes tmr_prx1 once the
\* switch of freq_init() has assigned it.
C12_SingleWriter ==
  [][ /\ (ipc' # ipc =>
            /\ tmr_pr' = tmr_pr /\ tmr_prx1' = tmr_prx1
            /\ GPIO'[LED_PIN] = GPIO[LED_PIN]
            /\ (LED_PIN \in TRISIO' <=> LED_PIN \in TRISIO))
      /\ (Armed /\ pc' # pc =>
            /\ TMR0' = TMR0
            /\ GPIO'[CNTR_CLK] = GPIO[CNTR_CLK] /\ GPIO'[CNTR_MR] = GPIO[CNTR_MR]
            /\ (CNTR_CLK \in TRISIO' <=> CNTR_CLK \in TRISIO)
            /\ (CNTR_MR \in TRISIO' <=> CNTR_MR \in TRISIO))
      /\ (AfterSwitch => tmr_prx1' = tmr_prx1) ]_vars

\* the loop is about to write LED_PIN with the gate open, and isr() has
\* run since the loop stored the 10x value
C12_Witness ==
  /\ pc = "led10" /\ ipc = "ret" /\ log.dir = "open" /\ CLKHigh
  /\ tmr_pr # tmr_prx1 /\ GPIO[LED_PIN] = 0

\* C13: for a supported prescaler, with the timer counting and the CPU
\* executing, CNTR_CLK is high infinitely often and (armed) low infinitely
\* often, a reset pulse is in progress infinitely often, every isr()
\* invocation returns, and in every armed state a timer tick or a handler
\* step is possible.
InvalidCfg == cfg.PS_TMR \notin ValidPrescalers
C13_RunsForever ==
  /\ []<>(InvalidCfg \/ CLKHigh)
  /\ []<>(InvalidCfg \/ (Armed /\ CLKLow))
  /\ []<>(InvalidCfg \/ (log.mr = <<"set">> /\ MRHigh))
  /\ [](ipc # "idle" => <>(ipc = "idle"))
  /\ [](InvalidCfg \/ ~Armed \/ ENABLED (Tick \/ IsrStep))

\* a reset pulse after the first one is in progress
C13_Witness ==
  /\ Armed /\ pulsed /\ ipc = "dly" /\ MRHigh /\ CLKHigh /\ log.mr = <<"set">>

FreqInitDone == pc = "ei" \/ Armed

\* C14 as stated: from the end of freq_init() onward CNTR_MR is low
\* whenever isr() is not executing, and every closed-to-open transition
\* produces exactly one pulse that starts from low, goes high and is low
\* again before the handler returns.
C14_Original ==
  /\ (FreqInitDone /\ ipc = "idle" => MRLow)
  /\ (ipc = "mr_set" => MRLow)
  /\ (ipc \in {"dly", "mr_clr"} => MRHigh)
  /\ (ipc = "ret" /\ log.dir = "open" => log.mr = Pulse /\ MRLow)

\* C14: freq_init() leaves CNTR_MR high and it stays high until the first
\* reset pulse has been cleared; from then on CNTR_MR is low except between
\* the set and the clear inside isr().  Every closed-to-open transition
\* produces exactly one set-then-clear that ends low before the handler
\* returns; only the pulses after the first start from low.
C14_ResetLowAfterFirstPulse ==
  /\ (FreqInitDone /\ ipc = "idle" =>
        /\ (MRLow <=> pulsed)
        /\ (MRHigh <=> ~pulsed))
  /\ (ipc \in {"t0if", "reload", "flip", "test", "mr_set"} =>
        /\ (MRLow <=> pulsed)
        /\ (MRHigh <=> ~pulsed))
  /\ (ipc \in {"dly", "mr_clr"} => MRHigh /\ log.mr = <<"set">>)
  /\ (ipc = "ret" => MRLow /\ pulsed)
  /\ (ipc = "ret" /\ log.dir = "open" => log.mr = Pulse)
  /\ (ipc = "ret" /\ log.dir = "close" => log.mr = <<>>)

\* the second opening: the pulse is about to start from a low line
C14_Witness ==
  /\ pulsed /\ ipc = "mr_set" /\ MRLow /\ CLKHigh /\ log.dir = "open"

\* C15: for every reload magnitude m in 1..25, the nominal value -m held in
\* the 8-bit tmr_prx1 is 256 - m and ten times it, stored in the 8-bit
\* tmr_pr, is 256 - 10m; the timer loaded with 256 - 10m overflows after
\* exactly 10m ticks and loaded with 256 - m after exactly m ticks, and
\* not before.
ScaleM == cfg.F_CLK \div 4000000
C15_TenTimesExact ==
  /\ ScaleM \in 1..LegalMax
  /\ (AfterSwitch => tmr_prx1 = 256 - ScaleM)
  /\ (pc = "led10" => tmr_pr = 256 - 10 * ScaleM)
  /\ (pc = "led1" => tmr_pr = 256 - ScaleM)
  /\ (pr_read.val # Unknown =>
        /\ pr_read.val \in {256 - ScaleM, 256 - 10 * ScaleM}
        /\ (pr_read.val = 256 - 10 * ScaleM =>
              IF T0IF = 1 \/ ipc = "reload" THEN ticks = 10 * ScaleM
              ELSE ticks < 10 * ScaleM /\ TMR0 = (256 - 10 * ScaleM + ticks) % 256)
        /\ (pr_read.val = 256 - ScaleM =>
              IF T0IF = 1 \/ ipc = "reload" THEN ticks = ScaleM
              ELSE ticks < ScaleM /\ TMR0 = (256 - ScaleM + ticks) % 256))

\* the largest magnitude, scaled: 6 was loaded and the 250th tick wrapped
C15_Witness ==
  /\ ScaleM = LegalMax /\ pr_read.val = 6 /\ T0IF = 1 /\ ticks = 250
  /\ tmr_prx1 = 231

=============================================================================
